---- MODULE Spec2Model ----
(***************************************************************************)
(* fetchit: the change-tracking and resumable-apply core                   *)
(* (pkg/engine/apply.go).  One (Target, Method) pair: the two git tags     *)
(* current-<method> and progress-<method>, the catch-up steps              *)
(* CatchUpProgress and CatchUpLatest, the change selector                  *)
(* getFilteredChangeMap and the concurrent dispatcher runChangesConcurrent *)
(* with its goroutines and its unbuffered result channel.                  *)
(***************************************************************************)
EXTENDS Integers, Sequences, FiniteSets, TLC

\* Number of commits the remote branch can reach in a run of the model.
NumCommits == 3

\* plumbing.Hash{}: the zero commit, also what reading an absent tag returns.
zeroHash == 0

(***************************************************************************)
(* File names are sequences of tokens, so that suffixes and glob patterns  *)
(* are computed on them and not assumed.                                    *)
(***************************************************************************)
NoName == << >>

\* The sentinel path of a deletion.
deleteFile == <<"deleteFile">>

\* The trees of the successive commits of the branch, restricted to the
\* target path: file name -> blob.  Commit c holds History[((c-1) % 3) + 1].
\*   1 -> 2 : x.service modified, y.service renamed to y.txt
\*   2 -> 3 : x.service deleted, z.service created
\*   3 -> 4 : x.service created, y.txt renamed to y.service, z.service deleted
History ==
    << (<<"x", ".service">> :> 1) @@ (<<"y", ".service">> :> 2),
       (<<"x", ".service">> :> 3) @@ (<<"y", ".txt">> :> 2),
       (<<"y", ".txt">> :> 2) @@ (<<"z", ".service">> :> 4) >>

\* object.Tree{}: the tree with no entry.
EmptyTree == << >>

\* A getSubTreeFromHash that looks the zero hash up like any other.
getSubTreeFromHashNoZero(hash) == History[((hash - 1) % Len(History)) + 1]

\* getSubTreeFromHash: the zero hash is the empty tree, another hash the
\* sub tree of its commit.
getSubTreeFromHash(hash) ==
    IF hash = zeroHash THEN EmptyTree
    ELSE History[((hash - 1) % Len(History)) + 1]

\* Tree.Diff (go-git, with its default rename detection): one change per
\* entry that differs; an entry removed under one name and added with the
\* same blob under another is one change carrying both names.
Diff(a, b) ==
    LET deleted  == {n \in DOMAIN a : n \notin DOMAIN b}
        inserted == {n \in DOMAIN b : n \notin DOMAIN a}
        renames  == {r \in deleted \X inserted : a[r[1]] = b[r[2]]}
    IN  {[From |-> n, To |-> n] : n \in {m \in DOMAIN a \cap DOMAIN b : a[m] # b[m]}}
        \cup {[From |-> r[1], To |-> r[2]] : r \in renames}
        \cup {[From |-> d, To |-> NoName] :
                 d \in {e \in deleted : \A r \in renames : r[1] # e}}
        \cup {[From |-> NoName, To |-> i] :
                 i \in {e \in inserted : \A r \in renames : r[2] # e}}

\* strings.HasSuffix
HasSuffix(name, suffix) ==
    /\ Len(suffix) <= Len(name)
    /\ SubSeq(name, Len(name) - Len(suffix) + 1, Len(name)) = suffix

\* checkTag: a nil list matches every name.
checkTag(tags, name) ==
    IF tags.isNil THEN TRUE
    ELSE \E i \in 1..Len(tags.list) : HasSuffix(name, tags.list[i])

\* glob.Glob.Match for patterns of literal tokens and "*" (any run of
\* tokens, the empty one included; no separator is configured).
RECURSIVE Match(_, _)
Match(pattern, name) ==
    IF pattern = << >> THEN name = << >>
    ELSE IF Head(pattern) = "*"
         THEN \/ Match(Tail(pattern), name)
              \/ name # << >> /\ Match(pattern, Tail(name))
         ELSE /\ name # << >>
              /\ Head(name) = Head(pattern)
              /\ Match(Tail(pattern), Tail(name))

\* glob.Compile: a nil pattern compiles "**".
Compile(globPattern) ==
    IF globPattern.isNil THEN <<"*", "*">> ELSE globPattern.pat

\* filepath.Join(directory, targetPath, change.To.Name)
Join(name) == <<"directory", "targetPath">> \o name

\* The first branch of the loop of getFilteredChangeMap.
SelectedByTo(change, tags, g) ==
    /\ change.To # NoName
    /\ checkTag(tags, change.To)
    /\ Match(g, change.To)

\* Its else-if branch.
SelectedByFrom(change, tags, g) ==
    /\ change.From # NoName
    /\ checkTag(tags, change.From)
    /\ Match(g, change.To)

\* getFilteredChangeMap: change -> path or deleteFile.
getFilteredChangeMap(currentTree, desiredTree, tags, globPattern) ==
    LET g       == Compile(globPattern)
        changes == Diff(currentTree, desiredTree)
        members == {c \in changes :
                       SelectedByTo(c, tags, g) \/ SelectedByFrom(c, tags, g)}
    IN  [c \in members |->
            IF SelectedByTo(c, tags, g) THEN Join(c.To) ELSE deleteFile]


(***************************************************************************)
(* The state tag store: the value of a tag is the commit it points at,     *)
(* zeroHash when the tag does not exist (no tag ever points at the zero    *)
(* hash: CreateTag refuses a hash that names no object).                   *)
(***************************************************************************)

\* GetCurrent / GetInProgress: git.ErrTagNotFound reads as plumbing.Hash{}.
GetTag(tag) == tag

\* repo.DeleteTag, with git.ErrTagNotFound swallowed by the caller.
DeleteTag(tag) == zeroHash

\* A CreateInProgress that writes nothing.
CreateInProgressNoWrite(tag, latest) == tag

\* CreateInProgress: repo.CreateTag, with git.ErrTagExists swallowed: an
\* existing progress tag stays where it points.
CreateInProgress(tag, latest) == IF tag = zeroHash THEN latest ELSE tag

\* A DeleteInProgress that leaves the tag in place.
DeleteInProgressKept(tag) == tag

\* DeleteInProgress
DeleteInProgress(tag) == DeleteTag(tag)

\* A CatchUpProgress that never replays.
ReplaySkipped(cur, prog) == FALSE

\* The guard of CatchUpProgress.
ReplayNeeded(cur, prog) == prog # cur

\* The guard of Apply.
DesiredIsZero(desiredState) == desiredState = zeroHash

\* A receive loop that drops the errors it receives.
LoopIgnoresErr(err) == FALSE

\* The receive loop of runChangesConcurrent returns on a non-nil error.
LoopReturns(err) == err

\* The filter configurations of the method: the suffix list (tags) and the
\* glob pattern, each possibly nil.
TagChoices ==
    { [isNil |-> TRUE, list |-> << >>],
      [isNil |-> FALSE, list |-> << <<".service">> >>] }

GlobChoices ==
    { [isNil |-> TRUE, pat |-> << >>],
      [isNil |-> FALSE, pat |-> << >>],
      [isNil |-> FALSE, pat |-> <<"x", "*">>],
      [isNil |-> FALSE, pat |-> <<"*", ".service">>] }

VARIABLES
    head,         \* the head of the branch in the remote repository
    tagCurrent,   \* the tag current-<method> in the local clone
    tagProgress,  \* the tag progress-<method> in the local clone
    tags,         \* the suffix list of the method
    globPattern,  \* the glob pattern of the method
    repoErrors,   \* whether opening the repository or a tag operation can fail
    pc,           \* the position of the coordinator in the tick
    latest,       \* the tick's locals
    current,
    progress,
    changeMap,    \* the change map of the dispatch under way
    task,         \* its goroutines: change -> [pc, err]
    received,     \* iterations completed by the receive loop
    rcc,          \* the call of runChangesConcurrent: running, or its result
    applyErr,     \* whether the last Apply returned an error
    dispatched,   \* the commit ranges handed to the dispatcher in this tick
    start,        \* the tags as read at the start of the tick
    result,       \* how the last tick ended
    call,         \* the last direct call of an operation of the tag store
    mu,           \* the lock of each Target
    sd,           \* the fields of each Systemd method
    run,          \* the position of each scheduled run of Systemd.Process
    engineCall,   \* the last call of Systemd.MethodEngine
    containers,   \* the names of the podman containers that exist
    rawCall       \* the last call of rawPodman

vars == <<head, tagCurrent, tagProgress, tags, globPattern, repoErrors, pc,
          latest, current, progress, changeMap, task, received, rcc,
          applyErr, dispatched, start, result, call, mu, sd, run, engineCall,
          containers, rawCall>>

config == <<tags, globPattern, repoErrors>>
locals == <<latest, current, progress>>
dispatch == <<changeMap, task, received, rcc>>
tagStore == <<tagCurrent, tagProgress>>

\* The state of the operations that are also modelled on their own.
systemd == <<mu, sd, run, engineCall>>
rawState == <<containers, rawCall>>
aside == <<call, systemd, rawState>>

NoTasks == [c \in {} |-> [pc |-> "run", err |-> FALSE]]
NoChanges == [c \in {} |-> deleteFile]

\* The outcomes of one access to the repository.
Outcomes == IF repoErrors THEN {TRUE, FALSE} ELSE {TRUE}

\* No direct call was made.
NoCall ==
    [fn |-> "none", arg |-> zeroHash,
     before |-> [current |-> zeroHash, progress |-> zeroHash],
     err |-> FALSE, ret |-> zeroHash, fault |-> "none",
     prev |-> [fn |-> "none", arg |-> zeroHash, err |-> FALSE]]

\* The two Targets, the Systemd method of each, and the scheduled runs of
\* Systemd.Process: two runs of one method may overlap.
Targets == {"A", "B"}
Methods == {"m1", "m2"}
Runs == {1, 2, 3}
TargetOf(m) == IF m = "m1" THEN "A" ELSE "B"
MethodOf(r) == IF r = 3 THEN "m2" ELSE "m1"

\* A change of the change map: its To name and the path it is mapped to.
NoChange == [isNil |-> TRUE, To |-> NoName]

NoEngineCall ==
    [method |-> "none", change |-> NoChange, path |-> << >>, fault |-> "none",
     err |-> FALSE, actions |-> << >>]

\* No run of Systemd.Process has started.
InitRuns ==
    /\ mu = [t \in Targets |-> FALSE]
    /\ run = [r \in Runs |-> "idle"]
    /\ engineCall = NoEngineCall

\* The zero value of a Systemd method.
InitSd ==
    sd = [m \in Methods |->
             [AutoUpdateAll |-> FALSE, Root |-> FALSE, Restart |-> FALSE,
              Enable |-> FALSE, initialRun |-> FALSE]]

\* The content of no file: mo.Previous = nil.
NoContent == "nil"

NoRawCall ==
    [path |-> << >>, prev |-> NoContent, fault |-> "none", ret |-> "none",
     ops |-> << >>]

\* No container exists and rawPodman has not been called.
InitRaw ==
    /\ containers = {}
    /\ rawCall = NoRawCall

InitAside ==
    /\ call = NoCall
    /\ InitRuns
    /\ InitSd
    /\ InitRaw

\* No tick is under way.
InitIdle ==
    /\ pc = "idle"
    /\ latest = zeroHash
    /\ current = zeroHash
    /\ progress = zeroHash
    /\ changeMap = NoChanges
    /\ task = NoTasks
    /\ received = 0
    /\ rcc = "none"
    /\ applyErr = FALSE
    /\ dispatched = << >>
    /\ start = [current |-> zeroHash, progress |-> zeroHash]
    /\ result = "none"

InitCommon ==
    /\ head = 1
    /\ tagCurrent = zeroHash
    /\ tagProgress = zeroHash
    /\ tags \in TagChoices
    /\ globPattern \in GlobChoices
    /\ InitIdle
    /\ InitAside

\* A target never run before, on a repository whose accesses succeed.
Init == InitCommon /\ repoErrors = FALSE

\* The same target on a repository whose accesses can fail.
InitRepoErrors == InitCommon /\ repoErrors = TRUE

RccPcs == {"cup_rcc", "cul_rcc", "cuc_rcc"}
AppliedPc(p) ==
    CASE p = "cup_rcc" -> "cup_applied"
      [] p = "cul_rcc" -> "cul_applied"
      [] p = "cuc_rcc" -> "cuc_applied"

\* A commit is pushed to the branch.  The head is read once per tick, at
\* its start, so pushes are taken between ticks.
Push ==
    /\ pc = "idle"
    /\ head < NumCommits
    /\ head' = head + 1
    /\ UNCHANGED <<tagStore, config, aside, pc, locals, dispatch, applyErr,
                   dispatched, start, result>>

\* The tick ends with an error.
Abort(how) ==
    /\ pc' = "idle"
    /\ result' = how

\* Steps 1 to 3 of the tick: GetLatest, GetCurrent, GetInProgress.
TickStart ==
    /\ pc = "idle"
    /\ latest' = head
    /\ current' = GetTag(tagCurrent)
    /\ progress' = GetTag(tagProgress)
    /\ start' = [current |-> tagCurrent, progress |-> tagProgress]
    /\ dispatched' = << >>
    /\ result' = "running"
    /\ pc' = "cup"
    /\ UNCHANGED <<head, tagStore, config, aside, dispatch, applyErr>>

\* Apply up to its call of runChangesConcurrent, which starts one goroutine
\* per member of the change map.
ApplyCall(currentState, desiredState, rccPc, retPc) ==
    IF DesiredIsZero(desiredState)
    THEN /\ applyErr' = TRUE
         /\ pc' = retPc
         /\ UNCHANGED <<dispatch, dispatched>>
    ELSE LET cm == getFilteredChangeMap(getSubTreeFromHash(currentState),
                                        getSubTreeFromHash(desiredState),
                                        tags, globPattern)
         IN  /\ changeMap' = cm
             /\ task' = [c \in DOMAIN cm |-> [pc |-> "run", err |-> FALSE]]
             /\ received' = 0
             /\ rcc' = "running"
             /\ applyErr' = FALSE
             /\ dispatched' = Append(dispatched,
                                     [from |-> currentState, to |-> desiredState])
             /\ pc' = rccPc

\* CatchUpProgress, lines 28-29.
CatchUpProgressBegin ==
    /\ pc = "cup"
    /\ IF ReplayNeeded(current, progress)
       THEN ApplyCall(current, progress, "cup_rcc", "cup_applied")
       ELSE /\ pc' = "cup_delete"
            /\ UNCHANGED <<dispatch, applyErr, dispatched>>
    /\ UNCHANGED <<head, tagStore, config, aside, locals, start, result>>

\* The goroutine of change c: EngineMethod returns, with an error or not.
TaskRun(c) ==
    /\ task[c].pc = "run"
    /\ \E err \in BOOLEAN :
          task' = [task EXCEPT ![c] =
                      [pc |-> IF err THEN "sendErr" ELSE "sendNil", err |-> err]]
    /\ UNCHANGED <<head, tagStore, config, aside, pc, locals, changeMap, received,
                   rcc, applyErr, dispatched, start, result>>

\* One iteration of the receive loop: the channel is unbuffered, so the
\* send of a goroutine and the receive of the loop are one step.  A
\* goroutine whose EngineMethod failed sends its error and then nil.
Receive(c) ==
    /\ pc \in RccPcs
    /\ received < Cardinality(DOMAIN changeMap)
    /\ task[c].pc \in {"sendErr", "sendNil"}
    /\ LET err == task[c].pc = "sendErr"
       IN  /\ task' = [task EXCEPT ![c].pc = IF err THEN "sendNil" ELSE "exit"]
           /\ IF LoopReturns(err)
              THEN /\ rcc' = "err"
                   /\ applyErr' = TRUE
                   /\ pc' = AppliedPc(pc)
                   /\ UNCHANGED received
              ELSE /\ received' = received + 1
                   /\ UNCHANGED <<rcc, applyErr, pc>>
    /\ UNCHANGED <<head, tagStore, config, aside, locals, changeMap, dispatched,
                   start, result>>

\* The goroutine of some change takes its step.
EngineMethodReturns == \E c \in DOMAIN task : TaskRun(c)

\* The loop receives from some goroutine.
ReceiveResult == \E c \in DOMAIN task : Receive(c)

\* A receive loop that waits for one result more than there are members.
LoopWaitsForOneMore ==
    /\ pc \in RccPcs
    /\ received = Cardinality(DOMAIN changeMap) + 1
    /\ rcc' = "nil"
    /\ applyErr' = FALSE
    /\ pc' = AppliedPc(pc)
    /\ UNCHANGED <<head, tagStore, config, aside, locals, changeMap, task, received,
                   dispatched, start, result>>

\* The receive loop has run once per member of the change map.
LoopDone ==
    /\ pc \in RccPcs
    /\ received = Cardinality(DOMAIN changeMap)
    /\ rcc' = "nil"
    /\ applyErr' = FALSE
    /\ pc' = AppliedPc(pc)
    /\ UNCHANGED <<head, tagStore, config, aside, locals, changeMap, task, received,
                   dispatched, start, result>>

\* A CatchUpProgress that returns the error of Apply without deleting the
\* progress tag.
CatchUpProgressAppliedNoDelete ==
    /\ pc = "cup_applied"
    /\ IF applyErr
       THEN Abort("errProgress")
       ELSE /\ pc' = "cup_upd_delete"
            /\ UNCHANGED result
    /\ UNCHANGED <<head, tagStore, config, aside, locals, dispatch, applyErr,
                   dispatched, start>>

\* CatchUpProgress, lines 30-41: after Apply.
CatchUpProgressApplied ==
    /\ pc = "cup_applied"
    /\ IF applyErr
       THEN /\ \E ok \in Outcomes :
                  tagProgress' = IF ok THEN DeleteInProgress(tagProgress)
                                 ELSE tagProgress
            /\ Abort("errProgress")
       ELSE /\ pc' = "cup_upd_delete"
            /\ UNCHANGED <<tagProgress, result>>
    /\ UNCHANGED <<head, tagCurrent, config, aside, locals, dispatch, applyErr,
                   dispatched, start>>

\* UpdateCurrent, line 145: the old tag is deleted.
UpdateCurrentDelete(how) ==
    /\ pc \in {"cup_upd_delete", "cul_upd_delete"}
    /\ \E ok \in Outcomes :
          IF ok
          THEN /\ tagCurrent' = DeleteTag(tagCurrent)
               /\ pc' = IF pc = "cup_upd_delete" THEN "cup_upd_create"
                        ELSE "cul_upd_create"
               /\ UNCHANGED result
          ELSE /\ Abort(how)
               /\ UNCHANGED tagCurrent
    /\ UNCHANGED <<head, tagProgress, config, aside, locals, dispatch, applyErr,
                   dispatched, start>>

\* UpdateCurrent, line 150: the new tag is created.
UpdateCurrentCreate(newCurrent, how) ==
    /\ pc \in {"cup_upd_create", "cul_upd_create"}
    /\ \E ok \in Outcomes :
          IF ok
          THEN /\ tagCurrent' = newCurrent
               /\ pc' = IF pc = "cup_upd_create" THEN "cup_delete"
                        ELSE "cul_delete"
               /\ UNCHANGED result
          ELSE /\ Abort(how)
               /\ UNCHANGED tagCurrent
    /\ UNCHANGED <<head, tagProgress, config, aside, locals, dispatch, applyErr,
                   dispatched, start>>

\* CatchUpProgress, line 38.
CatchUpProgressUpdate ==
    \/ pc = "cup_upd_delete" /\ UpdateCurrentDelete("errProgress")
    \/ pc = "cup_upd_create" /\ UpdateCurrentCreate(progress, "errProgress")

\* CatchUpProgress, lines 44-48.
CatchUpProgressDelete ==
    /\ pc = "cup_delete"
    /\ \E ok \in Outcomes :
          IF ok
          THEN /\ tagProgress' = DeleteInProgress(tagProgress)
               /\ pc' = "check"
               /\ UNCHANGED result
          ELSE /\ Abort("errProgress")
               /\ UNCHANGED tagProgress
    /\ UNCHANGED <<head, tagCurrent, config, aside, locals, dispatch, applyErr,
                   dispatched, start>>

\* Step 6 of the tick: current is read again; nothing to do when it is
\* latest.
CheckLatest ==
    /\ pc = "check"
    /\ current' = GetTag(tagCurrent)
    /\ IF latest = current'
       THEN /\ pc' = "idle"
            /\ result' = "ok"
       ELSE /\ pc' = "cul"
            /\ UNCHANGED result
    /\ UNCHANGED <<head, tagStore, config, aside, latest, progress, dispatch,
                   applyErr, dispatched, start>>

\* CatchUpLatest, lines 52-55.
CatchUpLatestBegin ==
    /\ pc = "cul"
    /\ \E ok \in Outcomes :
          IF ok
          THEN /\ tagProgress' = CreateInProgress(tagProgress, latest)
               /\ pc' = "cul_apply"
               /\ UNCHANGED result
          ELSE /\ Abort("errLatest")
               /\ UNCHANGED tagProgress
    /\ UNCHANGED <<head, tagCurrent, config, aside, locals, dispatch, applyErr,
                   dispatched, start>>

\* CatchUpLatest, line 57.
CatchUpLatestApply ==
    /\ pc = "cul_apply"
    /\ ApplyCall(current, latest, "cul_rcc", "cul_applied")
    /\ UNCHANGED <<head, tagStore, config, aside, locals, start, result>>

\* A CatchUpLatest that advances current whatever Apply returned.
CatchUpLatestAppliedUnchecked ==
    /\ pc = "cul_applied"
    /\ pc' = "cul_upd_delete"
    /\ UNCHANGED <<head, tagStore, config, aside, locals, dispatch, applyErr,
                   dispatched, start, result>>

\* CatchUpLatest, lines 58-64: after Apply.
CatchUpLatestApplied ==
    /\ pc = "cul_applied"
    /\ IF applyErr
       THEN /\ \E ok \in Outcomes :
                  tagProgress' = IF ok THEN DeleteInProgress(tagProgress)
                                 ELSE tagProgress
            /\ Abort("errLatest")
       ELSE /\ pc' = "cul_upd_delete"
            /\ UNCHANGED <<tagProgress, result>>
    /\ UNCHANGED <<head, tagCurrent, config, aside, locals, dispatch, applyErr,
                   dispatched, start>>

\* CatchUpLatest, line 66.
CatchUpLatestUpdate ==
    \/ pc = "cul_upd_delete" /\ UpdateCurrentDelete("errLatest")
    \/ pc = "cul_upd_create" /\ UpdateCurrentCreate(latest, "errLatest")

\* CatchUpLatest, lines 71-76.
CatchUpLatestDelete ==
    /\ pc = "cul_delete"
    /\ \E ok \in Outcomes :
          IF ok
          THEN /\ tagProgress' = DeleteInProgress(tagProgress)
               /\ pc' = "idle"
               /\ result' = "ok"
          ELSE /\ Abort("errLatest")
               /\ UNCHANGED tagProgress
    /\ UNCHANGED <<head, tagCurrent, config, aside, locals, dispatch, applyErr,
                   dispatched, start>>

\* The process stops and is started again: the tags stay, the tick, its
\* locals and its goroutines are gone.
Crash ==
    /\ pc' = "idle"
    /\ latest' = zeroHash
    /\ current' = zeroHash
    /\ progress' = zeroHash
    /\ changeMap' = NoChanges
    /\ task' = NoTasks
    /\ received' = 0
    /\ rcc' = "none"
    /\ applyErr' = FALSE
    /\ dispatched' = << >>
    /\ start' = [current |-> zeroHash, progress |-> zeroHash]
    /\ result' = "crashed"
    /\ UNCHANGED <<head, tagStore, config, aside>>

Next ==
    \/ Push
    \/ TickStart
    \/ CatchUpProgressBegin
    \/ EngineMethodReturns
    \/ ReceiveResult
    \/ LoopDone
    \/ CatchUpProgressApplied
    \/ CatchUpProgressUpdate
    \/ CatchUpProgressDelete
    \/ CheckLatest
    \/ CatchUpLatestBegin
    \/ CatchUpLatestApply
    \/ CatchUpLatestApplied
    \/ CatchUpLatestUpdate
    \/ CatchUpLatestDelete
    \/ Crash

Spec == Init /\ [][Next]_vars

SpecRepoErrors == InitRepoErrors /\ [][Next]_vars


\* The tick with the scheduling of the Go runtime: an EngineMethod that is
\* running returns, a send meets the receive of the loop while the loop
\* runs, and the loop leaves when it has run once per member.
SpecLive ==
    /\ Init
    /\ [][Next]_vars
    /\ WF_vars(EngineMethodReturns)
    /\ WF_vars(ReceiveResult)
    /\ WF_vars(LoopDone)

(***************************************************************************)
(* CatchUpCurrent, the initial catch-up, called on its own with any commit *)
(* as current and the two tags in any state.                               *)
(***************************************************************************)

\* CatchUpCurrent is called with a commit, or the zero hash, as current.
CatchUpCurrentCall ==
    /\ pc = "idle"
    /\ \E c \in 0..NumCommits : current' = c
    /\ start' = [current |-> tagCurrent, progress |-> tagProgress]
    /\ dispatched' = << >>
    /\ result' = "running"
    /\ pc' = "cuc"
    /\ UNCHANGED <<head, tagStore, config, aside, latest, progress, dispatch,
                   applyErr>>

\* CatchUpCurrent, line 19: Apply from the zero hash to current.
CatchUpCurrentBegin ==
    /\ pc = "cuc"
    /\ ApplyCall(zeroHash, current, "cuc_rcc", "cuc_applied")
    /\ UNCHANGED <<head, tagStore, config, aside, locals, start, result>>

\* A CatchUpCurrent that records the commit it has applied in the current
\* tag.
CatchUpCurrentReturnsTagged ==
    /\ pc = "cuc_applied"
    /\ pc' = "idle"
    /\ result' = IF applyErr THEN "errCurrent" ELSE "okCurrent"
    /\ tagCurrent' = IF applyErr THEN tagCurrent ELSE current
    /\ UNCHANGED <<head, tagProgress, config, aside, locals, dispatch,
                   applyErr, dispatched, start>>

\* CatchUpCurrent, lines 20-24: the error of Apply is returned, wrapped.
CatchUpCurrentReturns ==
    /\ pc = "cuc_applied"
    /\ pc' = "idle"
    /\ result' = IF applyErr THEN "errCurrent" ELSE "okCurrent"
    /\ UNCHANGED <<head, tagStore, config, aside, locals, dispatch, applyErr,
                   dispatched, start>>

\* Any state of the two tags and any filter.
InitCurrent ==
    /\ head = 1
    /\ tagCurrent \in 0..NumCommits
    /\ tagProgress \in 0..NumCommits
    /\ tags \in TagChoices
    /\ globPattern \in GlobChoices
    /\ repoErrors = FALSE
    /\ InitIdle
    /\ InitAside

NextCurrent ==
    \/ CatchUpCurrentCall
    \/ CatchUpCurrentBegin
    \/ EngineMethodReturns
    \/ ReceiveResult
    \/ LoopDone
    \/ CatchUpCurrentReturns

SpecCurrent == InitCurrent /\ [][NextCurrent]_vars

(***************************************************************************)
(* The operations of the tag store called on their own, on any state of    *)
(* the two tags, each as one step from its call to its return.  `fault` is *)
(* the access to the repository that fails in the call, if one does.       *)
(***************************************************************************)

\* repo.CreateTag: an existing tag is left where it points (ErrTagExists).
CreateTag(tag, hash) == IF tag = zeroHash THEN hash ELSE tag

\* An UpdateCurrent that creates the tag without deleting the old one.
UpdateCurrentTagNoDelete(tag, newCurrent, fault) ==
    IF fault = "none" THEN CreateTag(tag, newCurrent) ELSE tag

\* UpdateCurrent: the current tag when the call returns.
UpdateCurrentTag(tag, newCurrent, fault) ==
    CASE fault = "none"   -> CreateTag(DeleteTag(tag), newCurrent)
      [] fault = "create" -> DeleteTag(tag)
      [] OTHER            -> tag

\* A read that reports a tag that is not there as an error.
ReadErrNotFound(tag, fault) == fault # "none" \/ tag = zeroHash

\* GetCurrent / GetInProgress: the error returned; git.ErrTagNotFound is
\* none.
ReadErr(tag, fault) == fault # "none"

\* DeleteInProgress: the error returned; git.ErrTagNotFound is none.
DeleteErr(tag, fault) == fault # "none"

\* The accesses that can fail in a call.
Faults(accesses) == IF repoErrors THEN accesses \cup {"none"} ELSE {"none"}

\* The record of a call that returns.
Returned(fn, arg, err, ret, fault) ==
    [fn |-> fn, arg |-> arg,
     before |-> [current |-> tagCurrent, progress |-> tagProgress],
     err |-> err, ret |-> ret, fault |-> fault,
     prev |-> [fn |-> call.fn, arg |-> call.arg, err |-> call.err]]

tickVars == <<head, config, pc, locals, dispatch, applyErr, dispatched,
              start, result>>

\* GetCurrent
CallGetCurrent ==
    /\ \E fault \in Faults({"open", "tag"}) :
          LET err == ReadErr(tagCurrent, fault)
          IN  call' = Returned("GetCurrent", zeroHash, err,
                               IF err THEN zeroHash ELSE GetTag(tagCurrent),
                               fault)
    /\ UNCHANGED <<tagStore, tickVars, systemd, rawState>>

\* GetInProgress
CallGetInProgress ==
    /\ \E fault \in Faults({"open", "tag"}) :
          LET err == ReadErr(tagProgress, fault)
          IN  call' = Returned("GetInProgress", zeroHash, err,
                               IF err THEN zeroHash ELSE GetTag(tagProgress),
                               fault)
    /\ UNCHANGED <<tagStore, tickVars, systemd, rawState>>

\* UpdateCurrent
CallUpdateCurrent ==
    /\ \E newCurrent \in 1..NumCommits :
       \E fault \in Faults({"open", "delete", "create"}) :
          /\ tagCurrent' = UpdateCurrentTag(tagCurrent, newCurrent, fault)
          /\ call' = Returned("UpdateCurrent", newCurrent, fault # "none",
                              zeroHash, fault)
    /\ UNCHANGED <<tagProgress, tickVars, systemd, rawState>>

\* CreateInProgress
CallCreateInProgress ==
    /\ \E newProgress \in 1..NumCommits :
       \E fault \in Faults({"open", "create"}) :
          /\ tagProgress' = IF fault = "none"
                            THEN CreateInProgress(tagProgress, newProgress)
                            ELSE tagProgress
          /\ call' = Returned("CreateInProgress", newProgress, fault # "none",
                              zeroHash, fault)
    /\ UNCHANGED <<tagCurrent, tickVars, systemd, rawState>>

\* DeleteInProgress
CallDeleteInProgress ==
    /\ \E fault \in Faults({"open", "delete"}) :
          /\ tagProgress' = IF fault = "none"
                            THEN DeleteInProgress(tagProgress)
                            ELSE tagProgress
          /\ call' = Returned("DeleteInProgress", zeroHash,
                              DeleteErr(tagProgress, fault), zeroHash, fault)
    /\ UNCHANGED <<tagCurrent, tickVars, systemd, rawState>>

\* Any state of the two tags, on a repository whose accesses can fail.
InitStore ==
    /\ head = 1
    /\ tagCurrent \in 0..NumCommits
    /\ tagProgress \in 0..NumCommits
    /\ tags = [isNil |-> TRUE, list |-> << >>]
    /\ globPattern = [isNil |-> TRUE, pat |-> << >>]
    /\ repoErrors = TRUE
    /\ InitIdle
    /\ InitAside

NextStore ==
    \/ CallGetCurrent
    \/ CallGetInProgress
    \/ CallUpdateCurrent
    \/ CallCreateInProgress
    \/ CallDeleteInProgress

SpecStore == InitStore /\ [][NextStore]_vars

(***************************************************************************)
(* Systemd.Process: the scheduled runs of the systemd method, each under   *)
(* the lock of its Target, and the method engine they dispatch to.         *)
(***************************************************************************)

systemdPathRoot == "/etc/systemd/system"
podmanAutoUpdateTimer == <<"podman-auto-update", ".timer">>
podmanAutoUpdateService == <<"podman-auto-update", ".service">>

\* filepath.Base of a path: the name after the two directories that Join
\* puts before it; the sentinel has no directory.
Base(path) == IF Len(path) > 2 THEN SubSeq(path, 3, Len(path)) ELSE path

\* enableRestartSystemdService: the systemctl action run in the systemd
\* container; "autoupdate" runs enable.
Systemctl(action, dest, service) ==
    [action |-> IF action = "autoupdate" THEN "enable" ELSE action,
     target |-> service, dest |-> dest, prev |-> NoName]

\* fileTransferPodman: the unit file is placed in dest.
FileTransfer(path, dest, prev) ==
    [action |-> "filetransfer", target |-> path, dest |-> dest, prev |-> prev]

\* systemdPodman: the actions it runs, in order, and whether it returns an
\* error; fault is the action that fails, if one does.
systemdPodman(s, path, dest, prev, fault) ==
    IF s.AutoUpdateAll
    THEN IF ~s.initialRun
         THEN [actions |-> << >>, err |-> FALSE]
         ELSE IF fault = "timer"
              THEN [actions |->
                       <<Systemctl("autoupdate", dest, podmanAutoUpdateTimer)>>,
                    err |-> TRUE]
              ELSE [actions |->
                       <<Systemctl("autoupdate", dest, podmanAutoUpdateTimer),
                         Systemctl("autoupdate", dest, podmanAutoUpdateService)>>,
                    err |-> fault = "systemctl"]
    ELSE LET placed == IF s.initialRun
                       THEN <<FileTransfer(path, dest, prev)>>
                       ELSE << >>
         IN  IF s.initialRun /\ fault = "transfer"
             THEN [actions |-> placed, err |-> TRUE]
             ELSE IF ~s.Enable
             THEN [actions |-> placed, err |-> FALSE]
             ELSE IF ((s.Enable /\ ~s.Restart) \/ s.initialRun) /\ s.Enable
             THEN [actions |->
                      Append(placed, Systemctl("enable", dest, Base(path))),
                   err |-> fault = "systemctl"]
             ELSE IF s.Restart
             THEN [actions |->
                      Append(placed, Systemctl("restart", dest, Base(path))),
                   err |-> fault = "systemctl"]
             ELSE [actions |-> placed, err |-> FALSE]

\* Systemd.MethodEngine on the method with fields s: the fields it leaves,
\* the actions run and the error returned.  fault = "home": $HOME is not
\* set.
MethodEngine(s, change, path, fault) ==
    LET prev == IF ~change.isNil /\ change.To # NoName
                THEN change.To ELSE NoName
        dest == IF s.Root THEN systemdPathRoot ELSE "~/.config/systemd/user"
        s1   == IF ~change.isNil THEN [s EXCEPT !.initialRun = TRUE] ELSE s
    IN  IF fault = "home"
        THEN [sd |-> s, actions |-> << >>, err |-> TRUE]
        ELSE [sd |-> s1] @@ systemdPodman(s1, path, dest, prev, fault)

\* The record of a call of MethodEngine that returns.
EngineReturned(m, change, path, fault, res) ==
    [method |-> m, change |-> change, path |-> path, fault |-> fault,
     err |-> res.err, actions |-> res.actions]

EngineFaults == {"none", "home", "transfer", "timer", "systemctl"}

\* The changes a tick dispatches: a unit file created or modified, at its
\* joined path, and a unit file deleted, at the sentinel.
Changes ==
    { [isNil |-> FALSE, To |-> <<"x", ".service">>],
      [isNil |-> FALSE, To |-> NoName] }

PathOf(change) == IF change.To # NoName THEN Join(change.To) ELSE deleteFile

\* Process, line 71: the skew has been slept and the run reaches Lock.
Sleep(r) ==
    /\ run[r] = "idle"
    /\ run' = [run EXCEPT ![r] = "lock"]
    /\ UNCHANGED <<mu, sd, engineCall>>

\* A Lock that does not wait for the lock to be free.
LockNoWait(r) ==
    /\ run[r] = "lock"
    /\ mu' = [mu EXCEPT ![TargetOf(MethodOf(r))] = TRUE]
    /\ run' = [run EXCEPT ![r] = "locked"]
    /\ UNCHANGED <<sd, engineCall>>

\* Process, line 72: target.mu.Lock()
Lock(r) ==
    /\ run[r] = "lock"
    /\ ~mu[TargetOf(MethodOf(r))]
    /\ mu' = [mu EXCEPT ![TargetOf(MethodOf(r))] = TRUE]
    /\ run' = [run EXCEPT ![r] = "locked"]
    /\ UNCHANGED <<sd, engineCall>>

\* Process, lines 75-101: up to the call of currentToLatest.
ProcessBegin(r) ==
    /\ run[r] = "locked"
    /\ LET m  == MethodOf(r)
           s  == sd[m]
           s1 == IF s.AutoUpdateAll
                 THEN [s EXCEPT !.Enable = TRUE, !.Root = TRUE,
                                !.Restart = FALSE]
                 ELSE s
           s2 == IF s1.Restart THEN [s1 EXCEPT !.Enable = TRUE] ELSE s1
       IN  IF s.AutoUpdateAll /\ ~s.initialRun
           THEN /\ run' = [run EXCEPT ![r] = "return"]
                /\ UNCHANGED <<sd, engineCall>>
           ELSE IF s2.initialRun /\ s2.AutoUpdateAll
           THEN \E fault \in EngineFaults \ {"transfer"} :
                   LET res == MethodEngine(s2, NoChange, << >>, fault)
                   IN  /\ sd' = [sd EXCEPT
                                    ![m] = [res.sd EXCEPT !.initialRun = FALSE]]
                       /\ engineCall' =
                             EngineReturned(m, NoChange, << >>, fault, res)
                       /\ run' = [run EXCEPT ![r] = "return"]
           ELSE /\ sd' = [sd EXCEPT ![m] = s2]
                /\ UNCHANGED engineCall
                /\ IF s2.initialRun
                   THEN \E cloned \in BOOLEAN :
                           run' = [run EXCEPT
                                      ![r] = IF cloned THEN "tick" ELSE "return"]
                   ELSE run' = [run EXCEPT ![r] = "tick"]
    /\ UNCHANGED mu

\* A task of the tick's dispatch calls MethodEngine for a change.
Dispatch(r) ==
    /\ run[r] = "tick"
    /\ \E change \in Changes : \E fault \in EngineFaults \ {"timer"} :
          LET m   == MethodOf(r)
              res == MethodEngine(sd[m], change, PathOf(change), fault)
          IN  /\ sd' = [sd EXCEPT ![m] = res.sd]
              /\ engineCall' =
                    EngineReturned(m, change, PathOf(change), fault, res)
    /\ UNCHANGED <<mu, run>>

\* Process, lines 103-109: currentToLatest returns.
TickReturn(r) ==
    /\ run[r] = "tick"
    /\ \E err \in BOOLEAN :
          sd' = IF err THEN sd
                ELSE [sd EXCEPT ![MethodOf(r)].initialRun = FALSE]
    /\ run' = [run EXCEPT ![r] = "return"]
    /\ UNCHANGED <<mu, engineCall>>

\* Process, line 73: the deferred target.mu.Unlock()
Unlock(r) ==
    /\ run[r] = "return"
    /\ mu' = [mu EXCEPT ![TargetOf(MethodOf(r))] = FALSE]
    /\ run' = [run EXCEPT ![r] = "idle"]
    /\ UNCHANGED <<sd, engineCall>>

nonSystemd == <<tagStore, tickVars, call, rawState>>

ProcessSleeps == \E r \in Runs : Sleep(r) /\ UNCHANGED nonSystemd
ProcessLocks == \E r \in Runs : Lock(r) /\ UNCHANGED nonSystemd
ProcessBegins == \E r \in Runs : ProcessBegin(r) /\ UNCHANGED nonSystemd
ProcessDispatches == \E r \in Runs : Dispatch(r) /\ UNCHANGED nonSystemd
ProcessTickReturns == \E r \in Runs : TickReturn(r) /\ UNCHANGED nonSystemd
ProcessUnlocks == \E r \in Runs : Unlock(r) /\ UNCHANGED nonSystemd

\* The configurations of a Systemd method.
SdChoices ==
    [AutoUpdateAll : BOOLEAN, Root : {FALSE}, Restart : BOOLEAN,
     Enable : BOOLEAN, initialRun : BOOLEAN]

InitSystemd ==
    /\ head = 1
    /\ tagCurrent = zeroHash
    /\ tagProgress = zeroHash
    /\ tags = [isNil |-> FALSE, list |-> << <<".service">> >>]
    /\ globPattern = [isNil |-> TRUE, pat |-> << >>]
    /\ repoErrors = FALSE
    /\ InitIdle
    /\ call = NoCall
    /\ InitRuns
    /\ InitRaw
    /\ sd \in [Methods -> SdChoices]

NextSystemd ==
    \/ ProcessSleeps
    \/ ProcessLocks
    \/ ProcessBegins
    \/ ProcessDispatches
    \/ ProcessTickReturns
    \/ ProcessUnlocks

SpecSystemd == InitSystemd /\ [][NextSystemd]_vars

(***************************************************************************)
(* rawPodman: the raw method on one change.  A file content is the name of *)
(* the RawPod it describes, "bad" when it does not parse, "" when it is    *)
(* empty after TrimSpace.                                                  *)
(***************************************************************************)

Contents == {"a", "b", "bad", ""}

\* rawPodFromBytes: b[0] of an empty content panics.
rawPodFromBytes(b) ==
    CASE b = ""    -> "panic"
      [] b = "bad" -> "err"
      [] OTHER     -> "ok"

Op(op, name) == [op |-> op, name |-> name]

\* deleteContainer: the error of Stop is returned, the result of Remove is
\* dropped.
deleteContainer(cs, podName, fault) ==
    IF fault = "stop"
    THEN [cs |-> cs, err |-> TRUE, ops |-> <<Op("stop", podName)>>]
    ELSE [cs |-> IF fault = "remove" THEN cs ELSE cs \ {podName},
          err |-> FALSE,
          ops |-> <<Op("stop", podName), Op("remove", podName)>>]

\* rawPodman, line 59
IsDelete(path) == path = deleteFile

\* rawPodman on the containers cs: the containers it leaves, what it
\* returns ("nil", "err", or "panic") and the operations it has run on
\* podman and on the file system.  content is what ReadFile finds at path,
\* fault the operation that fails, inspectNil whether Inspect of a missing
\* container returns no data.
rawPodman(cs, path, prev, content, fault, inspectNil) ==
    LET del  == IF prev = NoContent
                THEN [cs |-> cs, err |-> FALSE, ops |-> << >>]
                ELSE deleteContainer(cs, prev, fault)
        read == Append(del.ops, Op("readFile", content))
        img  == Append(read, Op("pull", content))
        rm   == IF content \in del.cs \/ inspectNil
                THEN deleteContainer(del.cs, content, fault)
                ELSE [cs |-> del.cs, err |-> FALSE, ops |-> << >>]
        insp == Append(img, Op("inspect", content)) \o rm.ops
    IN  IF prev # NoContent /\ rawPodFromBytes(prev) # "ok"
        THEN [cs |-> cs, ret |-> rawPodFromBytes(prev), ops |-> << >>]
        ELSE IF del.err
        THEN [cs |-> del.cs, ret |-> "err", ops |-> del.ops]
        ELSE IF IsDelete(path)
        THEN [cs |-> del.cs, ret |-> "nil", ops |-> del.ops]
        ELSE IF fault = "read"
        THEN [cs |-> del.cs, ret |-> "err", ops |-> read]
        ELSE IF rawPodFromBytes(content) # "ok"
        THEN [cs |-> del.cs, ret |-> rawPodFromBytes(content), ops |-> read]
        ELSE IF fault = "pull"
        THEN [cs |-> del.cs, ret |-> "err", ops |-> img]
        ELSE IF rm.err
        THEN [cs |-> rm.cs, ret |-> "err", ops |-> insp]
        ELSE IF fault = "create" \/ content \in rm.cs
        THEN [cs |-> rm.cs, ret |-> "err",
              ops |-> Append(insp, Op("create", content))]
        ELSE [cs |-> rm.cs \cup {content},
              ret |-> IF fault = "start" THEN "err" ELSE "nil",
              ops |-> insp \o <<Op("create", content), Op("start", content)>>]

RawFaults == {"none", "stop", "remove", "read", "pull", "create", "start"}

\* The paths a change is mapped to.
RawPaths == {deleteFile, Join(<<"pod", ".json">>)}

\* rawPodman is called for a change; for the sentinel there is no file.
RawPodman ==
    /\ \E path \in RawPaths : \E prev \in Contents \cup {NoContent} :
       \E content \in IF path = deleteFile THEN {NoContent} ELSE Contents :
       \E fault \in RawFaults : \E inspectNil \in BOOLEAN :
          LET res == rawPodman(containers, path, prev, content, fault,
                               inspectNil)
          IN  /\ containers' = res.cs
              /\ rawCall' = [path |-> path, prev |-> prev, fault |-> fault,
                             ret |-> res.ret, ops |-> res.ops]
    /\ UNCHANGED <<tagStore, tickVars, call, systemd>>

InitRawPodman ==
    /\ head = 1
    /\ tagCurrent = zeroHash
    /\ tagProgress = zeroHash
    /\ tags = [isNil |-> TRUE, list |-> << >>]
    /\ globPattern = [isNil |-> TRUE, pat |-> << >>]
    /\ repoErrors = FALSE
    /\ InitIdle
    /\ InitAside

NextRaw == RawPodman

SpecRaw == InitRawPodman /\ [][NextRaw]_vars

(***************************************************************************)
(* The properties.                                                         *)
(***************************************************************************)

Last(seq) == seq[Len(seq)]

\* The tick under way, or the last one, found the Interrupted state: a
\* progress tag that differs from current.
Interrupted ==
    /\ start.progress # zeroHash
    /\ start.progress # start.current

\* The tasks of the last dispatch have all completed successfully.
AllSucceeded ==
    \A c \in DOMAIN task : task[c].pc = "exit" /\ ~task[c].err

\* C1: a tick that starts with progress = P and current = C # P dispatches
\* the changeset C->P first, and any further changeset it dispatches is
\* P->latest; when the tick ends well it has dispatched P->latest unless
\* latest is P.  The replay is never skipped.
C1_CrashResume ==
    Interrupted =>
        /\ pc # "cup" =>
              /\ Len(dispatched) >= 1
              /\ dispatched[1] = [from |-> start.current, to |-> start.progress]
        /\ \A i \in 2..Len(dispatched) :
              /\ i = 2
              /\ dispatched[i] = [from |-> start.progress, to |-> latest]
        /\ result = "ok" => (latest = start.progress \/ Len(dispatched) = 2)

C1_Witness ==
    /\ Interrupted
    /\ result = "ok"
    /\ Len(dispatched) = 2
    /\ start.current # zeroHash

\* C2: while the tasks of the changeset current->latest are being started
\* and run by CatchUpLatest, the progress tag points at latest.
C2_WriteAhead ==
    pc \in {"cul_apply", "cul_rcc"} => tagProgress = latest

C2_Witness ==
    /\ pc = "cul_rcc"
    /\ \E c \in DOMAIN task : task[c].pc = "run"
    /\ tagProgress = latest

\* C3: every step that sets the current tag to a commit X follows a
\* dispatch of a changeset ending at X all of whose tasks have completed
\* without error.
C3_CurrentOnlyAfterSuccess ==
    [][(tagCurrent' # tagCurrent /\ tagCurrent' # zeroHash) =>
          /\ dispatched # << >>
          /\ Last(dispatched).to = tagCurrent'
          /\ rcc = "nil"
          /\ AllSucceeded]_vars

C3_Witness ==
    /\ pc = "cul_delete"
    /\ tagCurrent = latest
    /\ Cardinality(DOMAIN task) >= 2
    /\ AllSucceeded

C5_ReplayFailure ==
    /\ [](result = "errProgress" => pc = "idle" /\ Len(dispatched) <= 1)
    /\ [][(pc = "cup_applied" /\ applyErr /\ pc' # pc /\ result' # "crashed") =>
             /\ pc' = "idle"
             /\ result' = "errProgress"
             /\ tagProgress' = zeroHash
             /\ tagCurrent' = start.current
             /\ tagCurrent' = tagCurrent
             /\ dispatched' = dispatched]_vars

C5_Witness ==
    /\ Interrupted
    /\ pc = "idle"
    /\ result = "errProgress"
    /\ rcc = "err"
    /\ dispatched = << [from |-> start.current, to |-> start.progress] >>
    /\ tagProgress = zeroHash


\* The tick under way, or the last one, found a current tag and no progress
\* tag.
CleanWithCurrent ==
    /\ start.progress = zeroHash
    /\ start.current # zeroHash

\* C6: a tick that starts with no progress tag and a current tag gets
\* through CatchUpProgress with no dispatch and no error, and when it ends
\* well with latest # current it has dispatched exactly current->latest and
\* left current = latest and no progress tag.
C6_CleanNotInterrupted ==
    CleanWithCurrent =>
        /\ result # "errProgress"
        /\ pc \in {"cup", "cup_delete", "check"} => dispatched = << >>
        /\ (result = "ok" /\ latest # start.current) =>
              /\ dispatched = << [from |-> start.current, to |-> latest] >>
              /\ tagCurrent = latest
              /\ tagProgress = zeroHash

\* The tick under way, or the last one, found neither tag.
FirstRun ==
    /\ start = [current |-> zeroHash, progress |-> zeroHash]
    /\ result \in {"running", "ok", "errProgress", "errLatest"}

\* The creations of the files of commit b that pass the suffix list and the
\* glob pattern.
Creations(b) ==
    {[From |-> NoName, To |-> n] :
        n \in {m \in DOMAIN getSubTreeFromHash(b) :
                  checkTag(tags, m) /\ Match(Compile(globPattern), m)}}

\* C7: a tick that starts with neither tag dispatches one changeset, the
\* creations of the selected files of latest, each at its joined path; it
\* fails only when a task failed, and when it ends well current = latest and
\* the progress tag is absent.
C7_FirstRun ==
    FirstRun =>
        /\ result # "errProgress"
        /\ \A i \in 1..Len(dispatched) :
              /\ i = 1
              /\ dispatched[i] = [from |-> zeroHash, to |-> latest]
              /\ DOMAIN changeMap = Creations(latest)
              /\ \A c \in DOMAIN changeMap : changeMap[c] = Join(c.To)
        /\ result = "errLatest" => \E c \in DOMAIN task : task[c].err
        /\ result = "ok" =>
              /\ Len(dispatched) = 1
              /\ tagCurrent = latest
              /\ tagProgress = zeroHash

C7_Witness ==
    /\ FirstRun
    /\ result = "ok"
    /\ Cardinality(DOMAIN changeMap) = 2
    /\ AllSucceeded
    /\ tagCurrent = latest

\* C8: runChangesConcurrent has returned an error exactly when the
\* EngineMethod of one of its tasks has returned an error.
C8_ErrorIffTaskFailed ==
    rcc \in {"nil", "err"} =>
        ((rcc = "err") <=> (\E c \in DOMAIN task : task[c].err))

C8_Witness ==
    /\ rcc = "err"
    /\ \E c \in DOMAIN task : task[c].pc = "exit" /\ ~task[c].err
    /\ \E c \in DOMAIN task : task[c].err

\* C9: once runChangesConcurrent has returned, the EngineMethod of every
\* task it started has returned.
C9_NoShortCircuit ==
    rcc \in {"nil", "err"} => \A c \in DOMAIN task : task[c].pc # "run"

\* The name a change is selected by: its To name, its From name when it is
\* a pure deletion.
FileName(change) == IF change.To # NoName THEN change.To ELSE change.From

\* C10: every member of the dispatched change map has a file name that
\* passes the suffix list and matches the glob pattern.
C10_Filtering ==
    \A c \in DOMAIN changeMap :
        /\ checkTag(tags, FileName(c))
        /\ Match(Compile(globPattern), FileName(c))


\* The direct call of fn has returned without error.
Succeeded(fn) == call.fn = fn /\ ~call.err

\* C11: after UpdateCurrent(c) has returned success the current tag reads
\* c, whatever it was before, and the progress tag is as before; a second
\* successful UpdateCurrent(c) leaves the state the first one left.
C11_UpdateCurrentOverwrites ==
    Succeeded("UpdateCurrent") =>
        /\ GetTag(tagCurrent) = call.arg
        /\ tagProgress = call.before.progress
        /\ (call.prev = [fn |-> "UpdateCurrent", arg |-> call.arg, err |-> FALSE])
              => <<tagCurrent, tagProgress>>
                    = <<call.before.current, call.before.progress>>

C11_Witness ==
    /\ Succeeded("UpdateCurrent")
    /\ call.before.current \notin {zeroHash, call.arg}
    /\ tagCurrent = call.arg

\* C12: after CreateInProgress(latest) has returned success the progress tag
\* reads latest, also when a progress tag at another commit existed before
\* the call.
C12_CreateInProgressOverwrites ==
    Succeeded("CreateInProgress") => GetTag(tagProgress) = call.arg

\* The call acted on a tag that was not there.
Absent(tag) == call.before[tag] = zeroHash

\* C13: a read of an absent current or progress tag returns the zero commit
\* and no error, a delete of an absent progress tag returns success and
\* leaves both tags as they were, and a read or a delete returns an error
\* only when an access to the repository failed.
C13_AbsenceIsNoError ==
    /\ (call.fn = "GetCurrent" /\ Absent("current") /\ call.fault = "none")
          => ~call.err /\ call.ret = zeroHash
    /\ (call.fn = "GetInProgress" /\ Absent("progress") /\ call.fault = "none")
          => ~call.err /\ call.ret = zeroHash
    /\ (call.fn = "DeleteInProgress" /\ Absent("progress")
           /\ call.fault = "none")
          => /\ ~call.err
             /\ <<tagCurrent, tagProgress>>
                   = <<call.before.current, call.before.progress>>
    /\ (call.fn \in {"GetCurrent", "GetInProgress", "DeleteInProgress"}
           /\ call.err)
          => call.fault # "none"

C13_Witness ==
    /\ call.fn = "DeleteInProgress" /\ Absent("progress") /\ ~call.err
    /\ call.prev.fn = "GetCurrent" /\ ~call.prev.err
    /\ tagCurrent = zeroHash

\* The positions of the coordinator inside CatchUpProgress.
CupPcs ==
    {"cup", "cup_rcc", "cup_applied", "cup_upd_delete", "cup_upd_create",
     "cup_delete"}

\* CatchUpProgress returns in this step, to the tick or with the tick's end.
CatchUpProgressReturns ==
    /\ pc \in CupPcs
    /\ \/ pc' = "check"
       \/ pc' = "idle" /\ result' = "errProgress"

\* A deletion of a tag fails in this step: the DeleteInProgress of lines
\* 31 and 44 leaves the progress tag in place, or UpdateCurrent returns
\* from its deletion of the old current tag.
TagDeletionFails ==
    \/ /\ pc \in {"cup_applied", "cup_delete"}
       /\ tagProgress # zeroHash
       /\ tagProgress' = tagProgress
    \/ pc = "cup_upd_delete"

\* C15: whenever CatchUpProgress returns, with success or with an error of
\* the replay or of the advance of current, and no deletion of a tag has
\* failed, the progress tag is absent.
C15_ProgressDeletedOnReturn ==
    [][(CatchUpProgressReturns /\ ~TagDeletionFails)
          => tagProgress' = zeroHash]_vars

\* The tree differences of the last dispatch that are pure deletions.
PureDeletions ==
    {c \in Diff(getSubTreeFromHash(Last(dispatched).from),
                getSubTreeFromHash(Last(dispatched).to)) :
        c.To = NoName /\ c.From # NoName}

\* C17: every pure deletion of the dispatched difference whose from-name
\* passes the suffix list and matches the glob pattern is a member of the
\* change map, mapped to the delete sentinel, whatever the glob pattern.
C17_DeletionsSelectedByFrom ==
    Len(dispatched) > 0 =>
        \A c \in PureDeletions :
            (checkTag(tags, c.From) /\ Match(Compile(globPattern), c.From))
               => /\ c \in DOMAIN changeMap
                  /\ changeMap[c] = deleteFile

\* The results the goroutine of change c has sent on the channel.
Sent(c) ==
    CASE task[c].pc \in {"run", "sendErr"} -> 0
      [] task[c].pc = "sendNil"            -> IF task[c].err THEN 1 ELSE 0
      [] task[c].pc = "exit"               -> IF task[c].err THEN 2 ELSE 1

\* C19: no task sends more than one result, and once runChangesConcurrent
\* has returned no goroutine is left at a send on the channel, which nothing
\* receives from any more.
C19_NoLeakedTask ==
    /\ \A c \in DOMAIN task : Sent(c) <= 1
    /\ rcc \in {"nil", "err"} =>
          \A c \in DOMAIN task : task[c].pc \notin {"sendErr", "sendNil"}

\* C18: a runChangesConcurrent that is running eventually returns, for every
\* change map, every set of failing tasks and every interleaving, when every
\* EngineMethod returns.
C18_DispatcherReturns == (rcc = "running") ~> (rcc # "running")

C18_Witness ==
    /\ Len(dispatched) > 0
    /\ DOMAIN changeMap = {}
    /\ rcc = "nil"
    /\ pc \in {"cup_applied", "cul_applied"}

\* The run is between its Lock and its Unlock.
Holds(r) == run[r] \in {"locked", "tick", "return"}

\* C14: a run holds the lock of its Target from its Lock to its return, so
\* no two runs for the same Target are inside Process together, at the
\* clone, the tick or its dispatches.
C14_TargetLock ==
    /\ \A r \in Runs : Holds(r) => mu[TargetOf(MethodOf(r))]
    /\ \A r1, r2 \in Runs :
          (r1 # r2 /\ TargetOf(MethodOf(r1)) = TargetOf(MethodOf(r2)))
             => ~(Holds(r1) /\ Holds(r2))

\* Runs for different Targets are in their ticks together, and a second
\* run for the Target of the first waits at Lock.
C14_Witness ==
    /\ run[1] = "tick"
    /\ run[3] = "tick"
    /\ run[2] = "lock"

\* The last call of MethodEngine has run the systemctl action on the unit.
Ran(action) ==
    \E i \in 1..Len(engineCall.actions) :
        /\ engineCall.actions[i].action = action
        /\ engineCall.actions[i].target = Base(engineCall.path)

\* C16: when a method with Restart = true (and not AutoUpdateAll) has
\* processed a unit file of a scheduled run without error, it has run
\* systemctl restart on the unit.
C16_RestartRuns ==
    (/\ engineCall.method \in Methods
     /\ sd[engineCall.method].Restart
     /\ ~sd[engineCall.method].AutoUpdateAll
     /\ ~engineCall.change.isNil
     /\ engineCall.path # deleteFile
     /\ ~engineCall.err)
       => Ran("restart")

\* The operations the last call of rawPodman has run.
RawOps == {rawCall.ops[i] : i \in 1..Len(rawCall.ops)}

\* C20: a rawPodman called with the delete sentinel as path creates and
\* starts no container and reads no file; it only stops and removes the
\* container of the previous content, when one is given, and it returns
\* success.
C20_DeleteSentinel ==
    (rawCall.path = deleteFile /\ rawCall.ret # "none") =>
        /\ \A o \in RawOps :
              /\ o.op \in {"stop", "remove"}
              /\ o.name = rawCall.prev
        /\ rawCall.prev = NoContent => RawOps = {}
        /\ rawCall.ret = "nil"

\* The actions the last call of MethodEngine has run.
EngineActions == {engineCall.actions[i] : i \in 1..Len(engineCall.actions)}

\* C21: a call of MethodEngine for a pure deletion, whose path is the delete
\* sentinel, places no file of the repository and runs no systemctl enable
\* or restart on the sentinel path.
C21_SentinelNoSystemctl ==
    (~engineCall.change.isNil /\ engineCall.path = deleteFile) =>
        \A a \in EngineActions :
            /\ a.action = "filetransfer" => a.target = deleteFile
            /\ a.action \in {"enable", "restart"}
                  => a.target # Base(deleteFile)

\* CatchUpCurrent is running or has returned.
CatchUpCurrentCalled ==
    pc \in {"cuc", "cuc_rcc", "cuc_applied"}
       \/ result \in {"okCurrent", "errCurrent"}

InUpdateCurrent ==
    pc \in {"cup_upd_delete", "cup_upd_create", "cul_upd_delete",
            "cul_upd_create"}

\* The commit that UpdateCurrent is writing.
NewCurrent ==
    IF pc \in {"cup_upd_delete", "cup_upd_create"} THEN progress ELSE latest

\* C23: when the process stops inside UpdateCurrent(new) while the current
\* tag held old, the current tag read after the restart is old or new, and
\* not absent.
C23_UpdateCurrentCrashAtomic ==
    [][(InUpdateCurrent /\ current # zeroHash /\ result' = "crashed")
          => GetTag(tagCurrent') \in {current, NewCurrent}]_vars

====
